---- MODULE Spec2Model ----
(***************************************************************************)
(* A model of spacetimedb_math's Vec3 normalisation family, Vec3::cross    *)
(* and the Axes basis constructors and presets (src/src/vec3.rs,           *)
(* src/src/conventions.rs).                                                *)
(*                                                                         *)
(* Scalar is a binary floating-point type.  It is modelled as a binary     *)
(* floating-point format with round-to-nearest-even and gradual underflow, *)
(* of MantBits significant bits instead of 24 (f32) or 53 (f64): a finite  *)
(* Scalar is the integer n standing for n * 2^(-QuantBits).  Every         *)
(* arithmetic operation of the source is one correctly rounded operation   *)
(* of that format.  The inputs are bounded, so no operation overflows.     *)
(***************************************************************************)
EXTENDS Integers, Sequences, FiniteSets, TLC

\* Significant bits of a Scalar (24 in f32).
MantBits == 4
\* The smallest positive Scalar is 2^(-QuantBits) (2^(-149) in f32).
QuantBits == 10

\* Bounds of the inputs.
\*   MaxNorm   components of the vectors that are normalised: -MaxNorm..MaxNorm
\*   MaxEps    the largest epsilon of the normalisation runs, in eighths
\*   MaxCoord  components of `up`: 0..MaxCoord
\*   MaxScale  the forward hint is s * up + d, s in -MaxScale..MaxScale
\*   MaxCross  components of the left operand of cross, in steps of 7/8
MaxNorm == 2
MaxEps == 28
MaxCoord == 3
MaxScale == 3
MaxCross == 2

RECURSIVE Pow2(_)
Pow2(k) == IF k = 0 THEN 1 ELSE 2 * Pow2(k - 1)

\* The Scalar 1.0 and the spacing of Scalars just above 1.0.
One == Pow2(QuantBits)
Ulp == Pow2(QuantBits - MantBits + 1)

Abs(x) == IF x < 0 THEN -x ELSE x

\* 2^MantBits: Scalars below it (in units of the smallest one) are spaced 1 apart.
Top == Pow2(MantBits)

\* The binade of num/den: den * 2^(MantBits + k) for the least k that puts
\* num/den below 2^(MantBits + k); d starts at den * 2^MantBits.
RECURSIVE Binade(_, _)
Binade(num, d) == IF num < d THEN d ELSE Binade(num, 2 * d)

\* num/den >= 0 rounded to the nearest Scalar, ties to the even significand.
RoundPos(num, den) ==
  LET d == Binade(num, den * Top) \div Top
      q == num \div d
      r == num % d
      up == (2 * r > d) \/ (2 * r = d /\ q % 2 = 1)
  IN  (IF up THEN q + 1 ELSE q) * (d \div den)

Round(num, den) == IF num < 0 THEN -RoundPos(-num, den) ELSE RoundPos(num, den)

FMul(a, b) == Round(a * b, One)
FAdd(a, b) == Round(a + b, 1)
FSub(a, b) == Round(a - b, 1)
FDiv(a, b) == IF b < 0 THEN Round(-(a * One), -b) ELSE Round(a * One, b)

RECURSIVE ISqrt(_, _)
\* The integer square root of n, searched upwards from r.
ISqrt(n, r) == IF (r + 1) * (r + 1) > n THEN r ELSE ISqrt(n, r + 1)

\* The spacing 2^k of Scalars at sqrt(n): the least k with n < (2^(MantBits + k))^2.
RECURSIVE SqrtBinade(_, _)
SqrtBinade(n, p) == IF n < Top * p * Top * p THEN p ELSE SqrtBinade(n, 2 * p)

\* sqrt of a Scalar x >= 0, correctly rounded.
FSqrt(x) ==
  LET n == x * One
      p == SqrtBinade(n, 1)
      r == ISqrt(n \div (p * p), 0)
      \* the midpoint (r + 1/2) * p between the two candidates
      mid == (2 * r + 1) * (p \div 2)
      up == IF p = 1 THEN n > r * r + r
            ELSE (n > mid * mid) \/ (n = mid * mid /\ r % 2 = 1)
  IN  (IF up THEN r + 1 ELSE r) * p

\* ---------------------------------------------------------------- Vec3
\* Vec3::new: the vector <<x, y, z>>.
V3(x, y, z) == <<x, y, z>>
ZERO == V3(0, 0, 0)
ONE == V3(One, One, One)

\* Option<T>: None is the empty tuple, Some(x) the one-element tuple.
None == <<>>
Some(x) == <<x>>
IsSome(o) == Len(o) = 1
Unwrap(o) == o[1]

Neg(a) == V3(-a[1], -a[2], -a[3])

\* Vec3::dot: self.x * other.x + self.y * other.y + self.z * other.z
Dot(a, b) == FAdd(FAdd(FMul(a[1], b[1]), FMul(a[2], b[2])), FMul(a[3], b[3]))

\* Faulty variant: the x component adds its two products.
Cross_Added(a, b) ==
  V3(FAdd(FMul(a[2], b[3]), FMul(a[3], b[2])),
     FSub(FMul(a[3], b[1]), FMul(a[1], b[3])),
     FSub(FMul(a[1], b[2]), FMul(a[2], b[1])))

\* Faulty variant: the operands of the y component are exchanged.
Cross_SignSlip(a, b) ==
  V3(FSub(FMul(a[2], b[3]), FMul(a[3], b[2])),
     FSub(FMul(a[1], b[3]), FMul(a[3], b[1])),
     FSub(FMul(a[1], b[2]), FMul(a[2], b[1])))

\* Vec3::cross
Cross(a, b) ==
  V3(FSub(FMul(a[2], b[3]), FMul(a[3], b[2])),
     FSub(FMul(a[3], b[1]), FMul(a[1], b[3])),
     FSub(FMul(a[1], b[2]), FMul(a[2], b[1])))

\* Vec3::length_squared
LengthSquared(a) == FAdd(FAdd(FMul(a[1], a[1]), FMul(a[2], a[2])), FMul(a[3], a[3]))

\* Vec3::length
Length(a) == FSqrt(LengthSquared(a))

\* Faulty variant: divides by the squared length (the sqrt is forgotten).
NormalizeOr_NoSqrt(a, epsilon, fallback) ==
  LET len_sq == LengthSquared(a)
      epsilon_sq == FMul(epsilon, epsilon)
  IN  IF len_sq <= epsilon_sq
      THEN fallback
      ELSE V3(FDiv(a[1], len_sq), FDiv(a[2], len_sq), FDiv(a[3], len_sq))

\* Vec3::normalize_or
NormalizeOr(a, epsilon, fallback) ==
  LET len_sq == LengthSquared(a)
      epsilon_sq == FMul(epsilon, epsilon)
  IN  IF len_sq <= epsilon_sq
      THEN fallback
      ELSE LET len == FSqrt(len_sq)
           IN  V3(FDiv(a[1], len), FDiv(a[2], len), FDiv(a[3], len))

\* Vec3::normalize_or_zero
NormalizeOrZero(a, epsilon) == NormalizeOr(a, epsilon, ZERO)

\* Faulty variant: only the exactly-zero vector is rejected (epsilon is ignored).
TryNormalize_ZeroOnly(a, epsilon) ==
  LET len_sq == LengthSquared(a)
  IN  IF len_sq = 0
      THEN None
      ELSE LET len == FSqrt(len_sq)
           IN  Some(V3(FDiv(a[1], len), FDiv(a[2], len), FDiv(a[3], len)))

\* Vec3::try_normalize
TryNormalize(a, epsilon) ==
  LET len_sq == LengthSquared(a)
      epsilon_sq == FMul(epsilon, epsilon)
  IN  IF len_sq <= epsilon_sq
      THEN None
      ELSE LET len == FSqrt(len_sq)
           IN  Some(V3(FDiv(a[1], len), FDiv(a[2], len), FDiv(a[3], len)))

\* ---------------------------------------------------------------- Axes
MkAxes(up, forward, right) == [up |-> up, forward |-> forward, right |-> right]

\* Faulty variant: a degenerate right is not propagated (normalize_or_zero for the `?`).
TryRightHanded_Unchecked(up, forward, epsilon) ==
  LET up_n == TryNormalize(up, epsilon)
  IN  IF ~IsSome(up_n) THEN None ELSE
      LET forward_n == TryNormalize(forward, epsilon)
      IN  IF ~IsSome(forward_n) THEN None ELSE
          LET right == NormalizeOrZero(Cross(Unwrap(forward_n), Unwrap(up_n)), epsilon)
          IN  Some(MkAxes(Unwrap(up_n), Cross(Unwrap(up_n), right), right))

\* Faulty variant: forward is not re-derived; the normalised hint is kept.
TryRightHanded_KeepHint(up, forward, epsilon) ==
  LET up_n == TryNormalize(up, epsilon)
  IN  IF ~IsSome(up_n) THEN None ELSE
      LET forward_n == TryNormalize(forward, epsilon)
      IN  IF ~IsSome(forward_n) THEN None ELSE
          LET right == TryNormalize(Cross(Unwrap(forward_n), Unwrap(up_n)), epsilon)
          IN  IF ~IsSome(right) THEN None ELSE
              Some(MkAxes(Unwrap(up_n), Unwrap(forward_n), Unwrap(right)))

\* Faulty variant: right = up.cross(forward), the left-handed operand order.
TryRightHanded_SwappedCross(up, forward, epsilon) ==
  LET up_n == TryNormalize(up, epsilon)
  IN  IF ~IsSome(up_n) THEN None ELSE
      LET forward_n == TryNormalize(forward, epsilon)
      IN  IF ~IsSome(forward_n) THEN None ELSE
          LET right == TryNormalize(Cross(Unwrap(up_n), Unwrap(forward_n)), epsilon)
          IN  IF ~IsSome(right) THEN None ELSE
              Some(MkAxes(Unwrap(up_n), Cross(Unwrap(up_n), Unwrap(right)), Unwrap(right)))

\* Faulty variant: forward = up.cross(right), the right-handed operand order.
TryLeftHanded_ForwardFlipped(up, forward, epsilon) ==
  LET up_n == TryNormalize(up, epsilon)
  IN  IF ~IsSome(up_n) THEN None ELSE
      LET forward_n == TryNormalize(forward, epsilon)
      IN  IF ~IsSome(forward_n) THEN None ELSE
          LET right == TryNormalize(Cross(Unwrap(up_n), Unwrap(forward_n)), epsilon)
          IN  IF ~IsSome(right) THEN None ELSE
              Some(MkAxes(Unwrap(up_n), Cross(Unwrap(up_n), Unwrap(right)), Unwrap(right)))

\* Faulty variant: right = forward.cross(up), the right-handed operand order.
TryLeftHanded_SameOrder(up, forward, epsilon) ==
  LET up_n == TryNormalize(up, epsilon)
  IN  IF ~IsSome(up_n) THEN None ELSE
      LET forward_n == TryNormalize(forward, epsilon)
      IN  IF ~IsSome(forward_n) THEN None ELSE
          LET right == TryNormalize(Cross(Unwrap(forward_n), Unwrap(up_n)), epsilon)
          IN  IF ~IsSome(right) THEN None ELSE
              Some(MkAxes(Unwrap(up_n), Cross(Unwrap(right), Unwrap(up_n)), Unwrap(right)))

\* Axes::try_right_handed; each `?` returns None from the whole function.
TryRightHanded(up, forward, epsilon) ==
  LET up_n == TryNormalize(up, epsilon)
  IN  IF ~IsSome(up_n) THEN None ELSE
      LET forward_n == TryNormalize(forward, epsilon)
      IN  IF ~IsSome(forward_n) THEN None ELSE
          LET right == TryNormalize(Cross(Unwrap(forward_n), Unwrap(up_n)), epsilon)
          IN  IF ~IsSome(right) THEN None ELSE
              Some(MkAxes(Unwrap(up_n), Cross(Unwrap(up_n), Unwrap(right)), Unwrap(right)))

\* Axes::try_left_handed
TryLeftHanded(up, forward, epsilon) ==
  LET up_n == TryNormalize(up, epsilon)
  IN  IF ~IsSome(up_n) THEN None ELSE
      LET forward_n == TryNormalize(forward, epsilon)
      IN  IF ~IsSome(forward_n) THEN None ELSE
          LET right == TryNormalize(Cross(Unwrap(up_n), Unwrap(forward_n)), epsilon)
          IN  IF ~IsSome(right) THEN None ELSE
              Some(MkAxes(Unwrap(up_n), Cross(Unwrap(right), Unwrap(up_n)), Unwrap(right)))

\* Faulty variant: the right of the left-handed X-forward preset has its sign slipped.
Z_UP_LEFT_HANDED_FWD_POS_X_Slip == MkAxes(V3(0, 0, One), V3(One, 0, 0), V3(0, -One, 0))

\* The preset conventions.
Y_UP_RIGHT_HANDED_FWD_NEG_Z == MkAxes(V3(0, One, 0), V3(0, 0, -One), V3(One, 0, 0))
Y_UP_RIGHT_HANDED_FWD_POS_Z == MkAxes(V3(0, One, 0), V3(0, 0, One), V3(-One, 0, 0))
Y_UP_LEFT_HANDED_FWD_POS_Z == MkAxes(V3(0, One, 0), V3(0, 0, One), V3(One, 0, 0))
Z_UP_RIGHT_HANDED_FWD_POS_Y == MkAxes(V3(0, 0, One), V3(0, One, 0), V3(One, 0, 0))
Z_UP_LEFT_HANDED_FWD_POS_X == MkAxes(V3(0, 0, One), V3(One, 0, 0), V3(0, One, 0))
DEFAULT == Y_UP_RIGHT_HANDED_FWD_NEG_Z

\* A preset by name, with the handedness its name states.
PresetNames == {"DEFAULT", "Y_UP_RIGHT_HANDED_FWD_NEG_Z", "Y_UP_RIGHT_HANDED_FWD_POS_Z",
                "Y_UP_LEFT_HANDED_FWD_POS_Z", "Z_UP_RIGHT_HANDED_FWD_POS_Y",
                "Z_UP_LEFT_HANDED_FWD_POS_X"}
Preset(name) ==
  CASE name = "DEFAULT" -> DEFAULT
    [] name = "Y_UP_RIGHT_HANDED_FWD_NEG_Z" -> Y_UP_RIGHT_HANDED_FWD_NEG_Z
    [] name = "Y_UP_RIGHT_HANDED_FWD_POS_Z" -> Y_UP_RIGHT_HANDED_FWD_POS_Z
    [] name = "Y_UP_LEFT_HANDED_FWD_POS_Z" -> Y_UP_LEFT_HANDED_FWD_POS_Z
    [] name = "Z_UP_RIGHT_HANDED_FWD_POS_Y" -> Z_UP_RIGHT_HANDED_FWD_POS_Y
    [] name = "Z_UP_LEFT_HANDED_FWD_POS_X" -> Z_UP_LEFT_HANDED_FWD_POS_X
NamedLeftHanded(name) == name \in {"Y_UP_LEFT_HANDED_FWD_POS_Z", "Z_UP_LEFT_HANDED_FWD_POS_X"}

\* ---------------------------------------------------------------- state
\* The caller's operands and the result of each operation it has run on them.
\*   a, b     the two vector operands (self/other, self/fallback, up/forward)
\*   epsilon  the caller's threshold
\*   preset   the name of the preset the operands were taken from, or "none"
\*   ran      the operations run so far on these operands
\*   tn, no, noz   results of try_normalize, normalize_or, normalize_or_zero
\*   ab, ba        results of a.cross(b) and b.cross(a)
\*   rh, lh        results of try_right_handed and try_left_handed
VARIABLES a, b, epsilon, preset, ran, tn, no, noz, ab, ba, rh, lh
vars == <<a, b, epsilon, preset, ran, tn, no, noz, ab, ba, rh, lh>>

NoResults ==
  /\ ran = {}
  /\ tn = None /\ no = ZERO /\ noz = ZERO
  /\ ab = ZERO /\ ba = ZERO
  /\ rh = None /\ lh = None

\* --- the normalisation family on self = a, fallback = b
TryNormalizeAct ==
  /\ "try_normalize" \notin ran
  /\ tn' = TryNormalize(a, epsilon)
  /\ ran' = ran \cup {"try_normalize"}
  /\ UNCHANGED <<a, b, epsilon, preset, no, noz, ab, ba, rh, lh>>

NormalizeOrAct ==
  /\ "normalize_or" \notin ran
  /\ no' = NormalizeOr(a, epsilon, b)
  /\ ran' = ran \cup {"normalize_or"}
  /\ UNCHANGED <<a, b, epsilon, preset, tn, noz, ab, ba, rh, lh>>

NormalizeOrZeroAct ==
  /\ "normalize_or_zero" \notin ran
  /\ noz' = NormalizeOrZero(a, epsilon)
  /\ ran' = ran \cup {"normalize_or_zero"}
  /\ UNCHANGED <<a, b, epsilon, preset, tn, no, ab, ba, rh, lh>>

NormCoords == {c * One : c \in -MaxNorm..MaxNorm}
NormVecs == {V3(x, y, z) : x \in NormCoords, y \in NormCoords, z \in NormCoords}
\* Epsilons: the Scalars nearest to the eighths from -1 to MaxEps/8, and the
\* smallest positive Scalar (whose square underflows to 0).
NormEps == {Round(k * Ulp, 1) : k \in -8..MaxEps} \cup {1}
Fallbacks == {ONE, V3(One, 0, 0)}

InitNorm ==
  /\ a \in NormVecs /\ b \in Fallbacks /\ epsilon \in NormEps
  /\ preset = "none"
  /\ NoResults
NextNorm == TryNormalizeAct \/ NormalizeOrAct \/ NormalizeOrZeroAct
SpecNorm == InitNorm /\ [][NextNorm]_vars

\* --- cross on self = a, other = b, in both orders
CrossAct ==
  /\ "a.cross(b)" \notin ran
  /\ ab' = Cross(a, b)
  /\ ran' = ran \cup {"a.cross(b)"}
  /\ UNCHANGED <<a, b, epsilon, preset, tn, no, noz, ba, rh, lh>>

CrossSwappedAct ==
  /\ "b.cross(a)" \notin ran
  /\ ba' = Cross(b, a)
  /\ ran' = ran \cup {"b.cross(a)"}
  /\ UNCHANGED <<a, b, epsilon, preset, tn, no, noz, ab, rh, lh>>

\* Operands whose products need rounding, and the unit axes.
CrossCoordsA == {c * 7 * Ulp : c \in -MaxCross..MaxCross} \cup {-One, One}
CrossCoordsB == {-(5 * Ulp), 0, One}
CrossVecsA == {V3(x, y, z) : x \in CrossCoordsA, y \in CrossCoordsA, z \in CrossCoordsA}
CrossVecsB == {V3(x, y, z) : x \in CrossCoordsB, y \in CrossCoordsB, z \in CrossCoordsB}

InitCross ==
  /\ a \in CrossVecsA /\ b \in CrossVecsB /\ epsilon = 0
  /\ preset = "none"
  /\ NoResults
NextCross == CrossAct \/ CrossSwappedAct
SpecCross == InitCross /\ [][NextCross]_vars

\* --- the basis constructors on up = a, forward = b
TryRightHandedAct ==
  /\ "try_right_handed" \notin ran
  /\ rh' = TryRightHanded(a, b, epsilon)
  /\ ran' = ran \cup {"try_right_handed"}
  /\ UNCHANGED <<a, b, epsilon, preset, tn, no, noz, ab, ba, lh>>

TryLeftHandedAct ==
  /\ "try_left_handed" \notin ran
  /\ lh' = TryLeftHanded(a, b, epsilon)
  /\ ran' = ran \cup {"try_left_handed"}
  /\ UNCHANGED <<a, b, epsilon, preset, tn, no, noz, ab, ba, rh>>

\* The caller takes its up and forward from a preset constant.
LoadPreset ==
  /\ preset = "none" /\ ran = {}
  /\ \E name \in PresetNames :
       /\ preset' = name
       /\ a' = Preset(name).up
       /\ b' = Preset(name).forward
  /\ UNCHANGED <<epsilon, ran, tn, no, noz, ab, ba, rh, lh>>

UpCoords == {c * One : c \in 0..MaxCoord}
Ups == {V3(0, y, z) : y \in UpCoords, z \in UpCoords}
Offsets == {V3(x, y, z) : x \in {-One, 0, One}, y \in {-One, 0, One}, z \in {-One, 0, One}}
\* The forward hint s * up + d: parallel and antiparallel to up (d = 0),
\* perpendicular (s = 0), and everything between.
Hint(up, s, d) == V3(s * up[1] + d[1], s * up[2] + d[2], s * up[3] + d[3])
\* 0, the smallest positive Scalar, one ulp of 1.0, 1/2, 1 and -1/2.
AxesEps == {0, 1, Ulp, One \div 2, One, -(One \div 2)}

InitAxes ==
  /\ a \in Ups
  /\ \E s \in -MaxScale..MaxScale : \E d \in Offsets : b = Hint(a, s, d)
  /\ epsilon \in AxesEps
  /\ preset = "none"
  /\ NoResults
NextAxes == TryRightHandedAct \/ TryLeftHandedAct \/ LoadPreset
SpecAxes == InitAxes /\ [][NextAxes]_vars

\* Every operation, on every operand set.
Init == InitNorm \/ InitCross \/ InitAxes
Next == NextNorm \/ NextCross \/ NextAxes
Spec == Init /\ [][Next]_vars

\* ---------------------------------------------------------------- claims
Ran(op) == op \in ran

\* "Approximately": the tests and the specification compare within 1.0e-5,
\* about 84 ulps of 1.0 in f32.  A Scalar of MantBits bits is compared within
\* two ulps of 1.0.
Tol == 2 * Ulp
Near(x, y) == Abs(x - y) <= Tol

\* self / length(self), the unit vector the claims name.
Scaled(x) ==
  LET len == Length(x)
  IN  V3(FDiv(x[1], len), FDiv(x[2], len), FDiv(x[3], len))

\* What a degenerate self must yield: None, the fallback, ZERO.
DegenerateResults ==
  /\ (Ran("try_normalize") => tn = None)
  /\ (Ran("normalize_or") => no = b)
  /\ (Ran("normalize_or_zero") => noz = ZERO)

\* What a normalisable self must yield: Some(self / length), of length 1
\* within tolerance, and the same vector from normalize_or and
\* normalize_or_zero.  (0 / 0 is NaN, which equals nothing.)
UnitResults ==
  /\ (Ran("try_normalize") =>
        /\ IsSome(tn)
        /\ Length(a) > 0 /\ Unwrap(tn) = Scaled(a)
        /\ Near(Length(Unwrap(tn)), One))
  /\ (Ran("normalize_or") => Length(a) > 0 /\ no = Scaled(a))
  /\ (Ran("normalize_or_zero") => Length(a) > 0 /\ noz = Scaled(a))

C9_AntiCommutative ==
  /\ (Ran("a.cross(b)") /\ Ran("b.cross(a)") => ab = Neg(ba))
  /\ (Ran("a.cross(b)") =>
        ab = V3(FSub(FMul(a[2], b[3]), FMul(a[3], b[2])),
                FSub(FMul(a[3], b[1]), FMul(a[1], b[3])),
                FSub(FMul(a[1], b[2]), FMul(a[2], b[1]))))
  /\ (Ran("b.cross(a)") =>
        ba = V3(FSub(FMul(b[2], a[3]), FMul(b[3], a[2])),
                FSub(FMul(b[3], a[1]), FMul(b[1], a[3])),
                FSub(FMul(b[1], a[2]), FMul(b[2], a[1]))))
  /\ (Ran("a.cross(b)") /\ a = V3(One, 0, 0) /\ b = V3(0, One, 0) => ab = V3(0, 0, One))

\* C9's case: both products taken of operands whose products are rounded,
\* with every component of the result non-zero.
C9_Witness ==
  /\ ran = {"a.cross(b)", "b.cross(a)"}
  /\ ab[1] # 0 /\ ab[2] # 0 /\ ab[3] # 0
  /\ ab[1] * One # a[2] * b[3] - a[3] * b[2]
  /\ ab = Neg(ba)

\* ------------------------------------------------- claims on the constructors
\* The constructors' results so far on up = a, forward = b.
Results ==
  (IF Ran("try_right_handed") THEN {rh} ELSE {}) \cup
  (IF Ran("try_left_handed") THEN {lh} ELSE {})
Built == {Unwrap(r) : r \in {x \in Results : IsSome(x)}}

\* The code's degeneracy test.
TooShort(x) == LengthSquared(x) <= FMul(epsilon, epsilon)

\* One of the three sub-steps is degenerate: up, forward, or the cross product
\* of the two normalised vectors (the two operand orders differ in sign only).
Degenerate == TooShort(a) \/ TooShort(b) \/ TooShort(Cross(Scaled(b), Scaled(a)))

\* forward is parallel or antiparallel to up, in exact arithmetic.
Parallel ==
  /\ a # ZERO /\ b # ZERO
  /\ a[2] * b[3] - a[3] * b[2] = 0
  /\ a[3] * b[1] - a[1] * b[3] = 0
  /\ a[1] * b[2] - a[2] * b[1] = 0

Sine == Length(Cross(Scaled(b), Scaled(a)))

\* x is within Tol / Sine of y.
NearScaled(x, y) == Abs(x - y) * Sine <= Tol * One

C5_Mirror ==
  (Ran("try_right_handed") /\ Ran("try_left_handed")) =>
    /\ IsSome(rh) <=> IsSome(lh)
    /\ IsSome(rh) =>
         /\ Unwrap(lh).up = Unwrap(rh).up
         /\ Unwrap(lh).right = Neg(Unwrap(rh).right)

\* C5's case: both constructors have built a basis from inputs off the
\* coordinate axes.
C5_Witness ==
  /\ ran = {"try_right_handed", "try_left_handed"}
  /\ IsSome(rh) /\ IsSome(lh)
  /\ a[2] # 0 /\ a[3] # 0 /\ b[1] # 0
  /\ Unwrap(lh).right = Neg(Unwrap(rh).right) /\ Unwrap(rh).right # ZERO

\* The Scalars on either side of 1.0e-5, which lies between 0 and the
\* smallest positive Scalar.
Eps1em5 == {0, 1}

\* C6: try_right_handed with up = (0,1,0), forward = (0,0,-1) and epsilon =
\* 1e-5 returns the preset Y_UP_RIGHT_HANDED_FWD_NEG_Z, which is DEFAULT,
\* field for field: up = (0,1,0), forward = (0,0,-1), right = (1,0,0).
C6_DefaultBasis ==
  (/\ Ran("try_right_handed")
   /\ a = V3(0, One, 0) /\ b = V3(0, 0, -One) /\ epsilon \in Eps1em5) =>
    /\ rh = Some(Y_UP_RIGHT_HANDED_FWD_NEG_Z)
    /\ rh = Some(DEFAULT)
    /\ IsSome(rh)
    /\ Unwrap(rh).up = V3(0, One, 0)
    /\ Unwrap(rh).forward = V3(0, 0, -One)
    /\ Unwrap(rh).right = V3(One, 0, 0)

\* C6's case: the constructor has run on exactly these inputs.
C6_Witness ==
  /\ Ran("try_right_handed") /\ preset = "none"
  /\ a = V3(0, One, 0) /\ b = V3(0, 0, -One) /\ epsilon = 1
  /\ IsSome(rh) /\ Unwrap(rh).right = V3(One, 0, 0)

\* The inputs of C7: up = (0,0,1), forward = (1,0,0), epsilon = 1e-5.
ZUpXForward == a = V3(0, 0, One) /\ b = V3(One, 0, 0) /\ epsilon \in Eps1em5

\* C7 as stated: try_right_handed on up = (0,0,1), forward = (1,0,0) returns
\* Some(axes) with axes.right = (0,1,0).
C7_AsStated ==
  (Ran("try_right_handed") /\ ZUpXForward) =>
    (IsSome(rh) /\ Unwrap(rh).right = V3(0, One, 0))

\* C7 as amended: try_right_handed on up = (0,0,1), forward = (1,0,0) returns
\* Some(axes) with axes.right = forward x up = (0,-1,0); (0,1,0) is the right
\* that try_left_handed returns on these inputs.
C7_RightIsMinusY ==
  /\ (Ran("try_right_handed") /\ ZUpXForward) =>
       (IsSome(rh) /\ Unwrap(rh).right = V3(0, -One, 0))
  /\ (Ran("try_left_handed") /\ ZUpXForward) =>
       (IsSome(lh) /\ Unwrap(lh).right = V3(0, One, 0))

\* C7's case: both constructors have run on exactly these inputs.
C7_Witness ==
  /\ ran = {"try_right_handed", "try_left_handed"} /\ preset = "none"
  /\ ZUpXForward /\ epsilon = 1
  /\ IsSome(rh) /\ Unwrap(rh).forward = V3(One, 0, 0)

\* The components of a preset are all -1, 0 or 1.
UnitComponents(v) == \A i \in 1..3 : v[i] \in {-One, 0, One}

Projection ==
  LET up_n == Scaled(a)
      d == Dot(up_n, b)
  IN  V3(FSub(b[1], FMul(up_n[1], d)), FSub(b[2], FMul(up_n[2], d)), FSub(b[3], FMul(up_n[3], d)))

====
